---- MODULE Spec2Model ----
(***************************************************************************)
(* Model of backend/main.py (IoTzy backend): the camera worker thread, the *)
(* HTTP handlers get_config / update_config / get_status, the two locks    *)
(* config_lock and state_lock, the MQTT publishes of the worker, and the   *)
(* MQTT network thread with its callbacks mqtt_on_connect, mqtt_on_message.*)
(*                                                                         *)
(* Conventions.  An Optional value is None == << >> or Some(x) == <<x>>;   *)
(* so is a local of camera_worker, None while it is unbound.               *)
(* A brightness (a float in [0,1] in the code) is an integer number of     *)
(* ten-thousandths, so that values which differ but round to the same      *)
(* three decimals exist.  A Python dict is a function whose DOMAIN is the  *)
(* set of its keys.  A program counter "Lnnn" names line nnn of main.py.   *)
(***************************************************************************)
EXTENDS Integers, Sequences, FiniteSets, TLC

VARIABLES
    config,            \* the module global `config` (BackendConfig)
    state,             \* the module global `state` (SensorState)
    mqtt_client,       \* the module global `mqtt_client`
    config_lock,       \* holder of config_lock, or "free"
    state_lock,        \* holder of state_lock, or "free"
    wpc,               \* camera_worker: program counter
    camera_index,      \* camera_worker locals ...
    automation,
    topics,
    cap,
    ret,
    frame,
    brightness,
    presence,
    last_presence,
    last_brightness,
    last_lamp_action,
    frames,            \* environment: number of frames the camera has delivered
    sent,              \* bus: messages published since the current frame was read
    retained,          \* bus: last payload published on each topic
    pubValue,          \* bus: the computed value carried by the last publish of each signal
    run,               \* the current run of frames of equal brightness: the brightness, the
                       \* number of frames, the number of lamp-ON commands published in it,
                       \* the lamp state last commanded before it
    written,           \* for each sensed field of `state`, the frame number it was written from
    gpc,               \* get_config: program counter
    upc,               \* update_config: program counter
    upayload,          \* update_config: the request body of the latest call
    uprior,            \* the global config when the latest update_config entered its with block
    uresponse,         \* update_config: what the latest call answered
    spc,               \* get_status: program counter
    config_json,       \* the contents of config.json (CONFIG_PATH), None when it is absent
    scene,             \* environment: the frames the camera can deliver
    inbox,             \* environment: the payloads the broker can deliver
    connected,         \* the paho client has a connection to the broker
    subscribed,        \* the topic the client is subscribed to on this connection
    mpc,               \* the paho network thread (on_connect, on_message): program counter
    msg,               \* mqtt_on_message: the message being handled
    topic_temp,        \* mqtt_on_connect, mqtt_on_message: local
    mpayload,          \* mqtt_on_message: local `payload`
    temp,              \* mqtt_on_message: local
    issued,            \* for each topic, the last payload the worker handed to publish
    handles,           \* number of frame source handles opened and not released
    resumed            \* the frame being processed is the first one read after a read failure

vars == <<config, state, mqtt_client, config_lock, state_lock, wpc, camera_index,
          automation, topics, cap, ret, frame, brightness, presence, last_presence,
          last_brightness, last_lamp_action, frames, sent, retained, pubValue,
          run, written, gpc, upc, upayload, uprior, uresponse, spc, config_json, scene, inbox, connected,
          subscribed, mpc, msg, topic_temp, mpayload, temp, issued, handles, resumed>>

wvars == <<wpc, camera_index, automation, topics, cap, ret, frame, brightness, presence,
           last_presence, last_brightness, last_lamp_action, handles, resumed>>
busvars == <<sent, retained, pubValue, run, issued>>
mvars == <<mpc, msg, topic_temp, mpayload, temp, subscribed>>
envvars == <<config_json, scene, inbox>>
gvars == <<gpc>>
uvars == <<upc, upayload, uprior, uresponse>>
svars == <<spc>>

----------------------------------------------------------------------------
(* Bounds of the model *)

\* the camera delivers at most MaxFrames frames; every later read fails
MaxFrames == 3
\* the wall clock is read at seconds 0..MaxNow
MaxNow == 1

----------------------------------------------------------------------------
(* Values *)

None == << >>
Some(x) == <<x>>

Get(d, k, default) == IF k \in DOMAIN d THEN d[k] ELSE default

\* brightness = gray.mean() / 255.0, in ten-thousandths
BrightnessValues == {3000, 3004, 3500, 4000, 5500}
\* a frame, as far as the worker looks at it: its mean luminance and whether HOG finds a person
Frames == [b : BrightnessValues, p : BOOLEAN]

\* round(brightness, 3): ten-thousandths to thousandths, ties to even
round3(b) ==
    LET q == b \div 10
        r == b % 10
    IN  IF r < 5 THEN q
        ELSE IF r > 5 THEN q + 1
        ELSE IF q % 2 = 0 THEN q ELSE q + 1

\* class Topics
Topics ==
    [temperature  |-> "iotzy/sensor/temperature",
     presence     |-> "iotzy/sensor/presence",
     brightness   |-> "iotzy/sensor/brightness",
     lamp_control |-> "iotzy/device/lamp/control"]

\* class Automation
Automation ==
    [lamp_enabled |-> TRUE, lamp_on_threshold |-> 3500, lamp_off_threshold |-> 5000]

\* class BackendConfig
BackendConfig ==
    [mqtt_host     |-> "broker.hivemq.com",
     mqtt_port     |-> 1883,
     mqtt_use_ssl  |-> FALSE,
     mqtt_username |-> "",
     mqtt_password |-> "",
     camera_index  |-> 0,
     topics        |-> Topics,
     automation    |-> Automation]

\* class SensorState
SensorState ==
    [temperature |-> None, presence |-> FALSE, brightness |-> None,
     last_seen |-> None, lamp_state |-> 0]

\* Topics(**d), Automation(**d): keyword arguments over the class defaults
TopicsFrom(d) == [k \in DOMAIN Topics |-> Get(d, k, Topics[k])]
AutomationFrom(d) == [k \in DOMAIN Automation |-> Get(d, k, Automation[k])]

\* load_config: CONFIG_PATH absent (file = None) or holding the JSON object file[1]
load_config(file) ==
    IF file = None THEN BackendConfig
    ELSE LET data == file[1] IN
         [mqtt_host     |-> Get(data, "mqtt_host", "broker.hivemq.com"),
          mqtt_port     |-> Get(data, "mqtt_port", 1883),
          mqtt_use_ssl  |-> Get(data, "mqtt_use_ssl", FALSE),
          mqtt_username |-> Get(data, "mqtt_username", ""),
          mqtt_password |-> Get(data, "mqtt_password", ""),
          camera_index  |-> Get(data, "camera_index", 0),
          topics        |-> TopicsFrom(Get(data, "topics", << >>)),
          automation    |-> AutomationFrom(Get(data, "automation", << >>))]

\* topics and thresholds a config file or a request may carry besides the defaults
AltTopics ==
    [temperature  |-> "home/temp",
     presence     |-> "home/presence",
     brightness   |-> "home/brightness",
     lamp_control |-> "home/lamp"]
PatchAutomation ==
    [lamp_enabled |-> TRUE, lamp_on_threshold |-> 3000, lamp_off_threshold |-> 4000]

\* the contents config.json may have at startup
ConfigFiles ==
    { None,
      Some([automation |-> [lamp_enabled |-> FALSE],
            camera_index |-> 1, topics |-> [lamp_control |-> "home/lamp"]]),
      Some([automation |-> [lamp_on_threshold |-> 5000, lamp_off_threshold |-> 3500]]) }

TopicNames ==
    {Topics[k] : k \in DOMAIN Topics} \cup {AltTopics[k] : k \in DOMAIN AltTopics}

\* class ConfigPayload: every field Optional, None when the request leaves it out
NoPayload ==
    [mqtt_host |-> None, mqtt_port |-> None, mqtt_use_ssl |-> None, mqtt_username |-> None,
     mqtt_password |-> None, camera_index |-> None, topics |-> None, automation |-> None]
\* the request bodies POST /api/config is called with
Payloads ==
    { [NoPayload EXCEPT !.automation = Some(PatchAutomation)],
      [NoPayload EXCEPT !.topics = Some(AltTopics), !.camera_index = Some(2)] }

\* a camera that shows a dark room and a bright room, nobody in it
DarkAndBright == {[b |-> 3000, p |-> FALSE], [b |-> 5500, p |-> FALSE]}

\* Python values a JSON document parses to
PyNone == [none |-> TRUE]
Number(n) == [number |-> n]
String(t) == [string |-> t]
Object(d) == [object |-> d]

\* msg.payload: bytes that are not UTF-8, text that is not JSON, or a JSON document
Undecodable == [bytes |-> "ff fe"]
NotJson == [text |-> "21.5 C"]
Json(v) == [json |-> v]

\* the payloads the broker delivers on the temperature topic
MessagePayloads ==
    { Undecodable,
      NotJson,
      Json(Number(5)),
      Json(Object(<< >>)),
      Json(Object([value |-> Number(21)])),
      Json(Object([value |-> Number(0)])),
      Json(Object([temp |-> Number(0)])),
      Json(Object([value |-> Number(0), temperature |-> Number(22)])),
      Json(Object([value |-> String("warm")])) }

\* a sensor that reports a reading, and one that reports text
ReadingOrText == {Json(Object([value |-> Number(21)])), NotJson}

----------------------------------------------------------------------------
(* State after on_startup: config loaded, MQTT client started, worker thread started *)

on_startup ==
    /\ config = load_config(config_json)
    /\ state = SensorState
    /\ mqtt_client = Some("iotzy_backend")
    /\ config_lock = "free"
    /\ state_lock = "free"
    /\ wpc = "L148"
    /\ camera_index = None
    /\ automation = None
    /\ topics = None
    /\ cap = "unbound"
    /\ ret = None
    /\ frame = None
    /\ brightness = None
    /\ presence = None
    /\ last_presence = None
    /\ last_brightness = None
    /\ last_lamp_action = "off"
    /\ frames = 0
    /\ sent = << >>
    /\ retained = [t \in TopicNames |-> None]
    /\ pubValue = [brightness |-> None, presence |-> None]
    /\ run = [b |-> None, n |-> 0, ons |-> 0, was |-> 0]
    /\ written = [brightness |-> 0, presence |-> 0, last_seen |-> 0]
    /\ gpc = "idle"
    /\ upc = "idle" /\ upayload = None /\ uprior = None /\ uresponse = None
    /\ spc = "idle"
    /\ connected = TRUE
    /\ subscribed = None
    /\ mpc = "L100"
    /\ msg = None /\ topic_temp = None /\ mpayload = None /\ temp = None
    /\ issued = [t \in TopicNames |-> None]
    /\ handles = 0
    /\ resumed = FALSE

\* any config.json, any frame from the camera, any payload from the broker
Init ==
    /\ config_json \in ConfigFiles
    /\ scene = Frames
    /\ inbox = MessagePayloads
    /\ on_startup

----------------------------------------------------------------------------
(* publish(topic, payload) *)

\* what mqtt_client.publish(topic, json.dumps(payload)) does with a message of QoS 0 (the
\* default): sent when the client has a connection, dropped otherwise (MQTT_ERR_NO_CONN is
\* returned, nothing is queued); it neither blocks nor raises
client_publish(m) ==
    IF connected
    THEN /\ sent' = Append(sent, m)
         /\ retained' = [retained EXCEPT ![m.topic] = Some(m.payload)]
    ELSE UNCHANGED <<sent, retained>>

\* faulty variant: without a connection the message is kept and goes out all the same
publish_buffered(topic, data) ==
    /\ issued' = [issued EXCEPT ![topic] = Some(data)]
    /\ sent' = Append(sent, [topic |-> topic, payload |-> data])
    /\ retained' = [retained EXCEPT ![topic] = Some(data)]

publish(topic, data) ==
    /\ issued' = [issued EXCEPT ![topic] = Some(data)]
    /\ IF mqtt_client = None
       THEN UNCHANGED <<sent, retained>>
       ELSE client_publish([topic |-> topic, payload |-> data])

----------------------------------------------------------------------------
(* camera_worker *)

\* with config_lock: (entering)
W_L148 ==
    /\ wpc = "L148"
    /\ config_lock = "free"
    /\ config_lock' = "worker"
    /\ wpc' = "L149"
    /\ UNCHANGED <<config, state, mqtt_client, state_lock, camera_index, automation, topics,
                   cap, ret, frame, brightness, presence, last_presence, last_brightness,
                   last_lamp_action, frames, busvars, written, gvars, uvars, svars, mvars, connected, envvars, handles, resumed>>

\* camera_index = config.camera_index
W_L149 ==
    /\ wpc = "L149"
    /\ camera_index' = Some(config.camera_index)
    /\ wpc' = "L150"
    /\ UNCHANGED <<config, state, mqtt_client, config_lock, state_lock, automation, topics,
                   cap, ret, frame, brightness, presence, last_presence, last_brightness,
                   last_lamp_action, frames, busvars, written, gvars, uvars, svars, mvars, connected, envvars, handles, resumed>>

\* automation = config.automation
W_L150 ==
    /\ wpc = "L150"
    /\ automation' = Some(config.automation)
    /\ wpc' = "L151"
    /\ UNCHANGED <<config, state, mqtt_client, config_lock, state_lock, camera_index, topics,
                   cap, ret, frame, brightness, presence, last_presence, last_brightness,
                   last_lamp_action, frames, busvars, written, gvars, uvars, svars, mvars, connected, envvars, handles, resumed>>

\* topics = config.topics, and the with block ends
W_L151 ==
    /\ wpc = "L151"
    /\ topics' = Some(config.topics)
    /\ config_lock' = "free"
    /\ wpc' = "L152"
    /\ UNCHANGED <<config, state, mqtt_client, state_lock, camera_index, automation,
                   cap, ret, frame, brightness, presence, last_presence, last_brightness,
                   last_lamp_action, frames, busvars, written, gvars, uvars, svars, mvars, connected, envvars, handles, resumed>>

\* where the worker goes after cv2.VideoCapture(camera_index): `if not cap.isOpened()` to the
\* sleep(3) and `continue`, else to the inner loop
after_open(opened) == IF ~opened THEN "L154" ELSE "L156"

\* cap = cv2.VideoCapture(camera_index); if not cap.isOpened(): ...
W_L152 ==
    /\ wpc = "L152"
    /\ \E opened \in BOOLEAN :
          /\ cap' = IF opened THEN "opened" ELSE "failed"
          /\ handles' = IF opened THEN handles + 1 ELSE handles
          /\ wpc' = after_open(opened)
    /\ UNCHANGED <<config, state, mqtt_client, config_lock, state_lock, camera_index,
                   automation, topics, ret, frame, brightness, presence, last_presence,
                   last_brightness, last_lamp_action, frames, busvars, written, gvars,
                   uvars, svars, mvars, connected, envvars, resumed>>

\* faulty variant: the worker returns after a failed open instead of retrying
return_after_sleep3 == "return"

\* where `continue` after time.sleep(3) leads: the top of `while True`
after_sleep3 == "L148"

\* time.sleep(3); continue
W_L154 ==
    /\ wpc = "L154"
    /\ wpc' = after_sleep3
    /\ UNCHANGED <<config, state, mqtt_client, config_lock, state_lock, camera_index,
                   automation, topics, cap, ret, frame, brightness, presence, last_presence,
                   last_brightness, last_lamp_action, frames, busvars, written, gvars,
                   uvars, svars, mvars, connected, envvars, handles, resumed>>

\* faulty variant: the inner loop left without cap.release()
after_inner_loop_unreleased == "L187"

\* where the worker goes when the inner loop ends, by `break` or by its condition
after_inner_loop == "L186"

\* while cap.isOpened(): the device may report itself closed (unplugged)
W_L156 ==
    /\ wpc = "L156"
    /\ \E isOpened \in (IF cap = "opened" THEN BOOLEAN ELSE {FALSE}) :
          wpc' = IF isOpened THEN "L157" ELSE after_inner_loop
    /\ UNCHANGED <<config, state, mqtt_client, config_lock, state_lock, camera_index,
                   automation, topics, cap, ret, frame, brightness, presence, last_presence,
                   last_brightness, last_lamp_action, frames, busvars, written, gvars,
                   uvars, svars, mvars, connected, envvars, handles, resumed>>

\* faulty variant: a failed read clears the readings before breaking
state_cleared_on_read_failure(s) == [s EXCEPT !.brightness = None, !.presence = FALSE]

\* what a failed read leaves in the State Store: `if not ret: break` touches nothing
state_after_read_failure(s) == s

\* ret, frame = cap.read(); if not ret: break
W_L157 ==
    /\ wpc = "L157"
    /\ \/ /\ frames < MaxFrames
          /\ \E f \in scene :
                /\ frame' = Some(f)
                /\ run' = IF run.b = Some(f.b)
                          THEN [run EXCEPT !.n = @ + 1]
                          ELSE [b |-> Some(f.b), n |-> 1, ons |-> 0,
                                was |-> IF retained[topics[1].lamp_control] = None THEN 0
                                        ELSE retained[topics[1].lamp_control][1].state]
          /\ ret' = Some(TRUE)
          /\ resumed' = (ret = Some(FALSE))
          /\ frames' = frames + 1
          /\ sent' = << >>
          /\ wpc' = "L160"
          /\ UNCHANGED state
       \/ /\ frame' = None
          /\ ret' = Some(FALSE)
          /\ resumed' = FALSE
          /\ wpc' = after_inner_loop
          /\ state' = state_after_read_failure(state)
          /\ UNCHANGED <<frames, sent, run>>
    /\ UNCHANGED <<config, mqtt_client, config_lock, state_lock, camera_index,
                   automation, topics, cap, brightness, presence, last_presence,
                   last_brightness, last_lamp_action, retained, pubValue, written, gvars,
                   uvars, svars, mvars, connected, envvars, handles, issued>>

\* gray = cvtColor(frame); brightness = float(gray.mean() / 255.0);
\* rects = hog.detectMultiScale(gray); presence = len(rects) > 0
W_L160 ==
    /\ wpc = "L160"
    /\ brightness' = Some(frame[1].b)
    /\ presence' = Some(frame[1].p)
    /\ wpc' = "L164"
    /\ UNCHANGED <<config, state, mqtt_client, config_lock, state_lock, camera_index,
                   automation, topics, cap, ret, frame, last_presence,
                   last_brightness, last_lamp_action, frames, busvars, written, gvars,
                   uvars, svars, mvars, connected, envvars, handles, resumed>>

\* faulty variant: the gate forgotten: every sample is published
changed_always(value, last) == TRUE

\* `brightness != last_brightness`, `presence != last_presence`: last is None or a value
changed(value, last) == last # Some(value)

\* if brightness != last_brightness: publish(...); last_brightness = brightness
W_L164 ==
    /\ wpc = "L164"
    /\ IF changed(brightness[1], last_brightness)
       THEN /\ publish(topics[1].brightness, [value |-> round3(brightness[1])])
            /\ pubValue' = IF mqtt_client = None \/ ~connected THEN pubValue
                           ELSE [pubValue EXCEPT !.brightness = brightness]
            /\ UNCHANGED run
            /\ last_brightness' = brightness
       ELSE UNCHANGED <<busvars, last_brightness>>
    /\ wpc' = "L167"
    /\ UNCHANGED <<config, state, mqtt_client, config_lock, state_lock, camera_index,
                   automation, topics, cap, ret, frame, brightness, presence, last_presence,
                   last_lamp_action, frames, written, gvars, uvars, svars, mvars, connected, envvars, handles, resumed>>

\* if presence != last_presence: publish(...); last_presence = presence
W_L167 ==
    /\ wpc = "L167"
    /\ IF changed(presence[1], last_presence)
       THEN /\ publish(topics[1].presence, [value |-> IF presence[1] THEN 1 ELSE 0])
            /\ pubValue' = IF mqtt_client = None \/ ~connected THEN pubValue
                           ELSE [pubValue EXCEPT !.presence = presence]
            /\ UNCHANGED run
            /\ last_presence' = presence
       ELSE UNCHANGED <<busvars, last_presence>>
    /\ wpc' = "L170"
    /\ UNCHANGED <<config, state, mqtt_client, config_lock, state_lock, camera_index,
                   automation, topics, cap, ret, frame, brightness, presence, last_brightness,
                   last_lamp_action, frames, written, gvars, uvars, svars, mvars, connected, envvars, handles, resumed>>

\* with state_lock: (entering), lines 170 and 178/183
state_lock_free == state_lock = "free"

W_L170 ==
    /\ wpc = "L170"
    /\ state_lock_free
    /\ state_lock' = "worker"
    /\ wpc' = "L171"
    /\ UNCHANGED <<config, state, mqtt_client, config_lock, camera_index, automation, topics,
                   cap, ret, frame, brightness, presence, last_presence, last_brightness,
                   last_lamp_action, frames, busvars, written, gvars, uvars, svars, mvars, connected, envvars, handles, resumed>>

\* state.brightness = brightness
W_L171 ==
    /\ wpc = "L171"
    /\ state' = [state EXCEPT !.brightness = brightness]
    /\ written' = [written EXCEPT !.brightness = frames]
    /\ wpc' = "L172"
    /\ UNCHANGED <<config, mqtt_client, config_lock, state_lock, camera_index, automation,
                   topics, cap, ret, frame, brightness, presence, last_presence,
                   last_brightness, last_lamp_action, frames, busvars, gvars, uvars,
                   svars, mvars, connected, envvars, handles, resumed>>

\* state.presence = presence
W_L172 ==
    /\ wpc = "L172"
    /\ state' = [state EXCEPT !.presence = presence[1]]
    /\ written' = [written EXCEPT !.presence = frames]
    /\ wpc' = "L173"
    /\ UNCHANGED <<config, mqtt_client, config_lock, state_lock, camera_index, automation,
                   topics, cap, ret, frame, brightness, presence, last_presence,
                   last_brightness, last_lamp_action, frames, busvars, gvars, uvars,
                   svars, mvars, connected, envvars, handles, resumed>>

\* time.strftime("%Y-%m-%d %H:%M:%S"): the wall clock's second, never before the second
\* the previous call returned (line 173 is the only reader of the clock)
strftime(last) == (IF last = None THEN 0 ELSE last[1]) .. MaxNow

\* faulty variant: the automation part indented under the `with state_lock:` of line 170
extended_with_L170 == "worker"

\* the holder of state_lock when the with block of lines 170-173 ends
end_with_L170 == "free"

\* state.last_seen = time.strftime("%Y-%m-%d %H:%M:%S"), and the with block ends
W_L173 ==
    /\ wpc = "L173"
    /\ \E t \in strftime(state.last_seen) : state' = [state EXCEPT !.last_seen = Some(t)]
    /\ written' = [written EXCEPT !.last_seen = frames]
    /\ state_lock' = end_with_L170
    /\ wpc' = "L174"
    /\ UNCHANGED <<config, mqtt_client, config_lock, camera_index, automation,
                   topics, cap, ret, frame, brightness, presence, last_presence,
                   last_brightness, last_lamp_action, frames, busvars, gvars, uvars,
                   svars, mvars, connected, envvars, handles, resumed>>

\* faulty variant: the thresholds compared with <= and >=
lamp_decision_inclusive(a, b, last) ==
    IF a.lamp_enabled
    THEN IF b <= a.lamp_on_threshold /\ last # "on" THEN "on"
         ELSE IF b >= a.lamp_off_threshold /\ last # "off" THEN "off"
         ELSE "none"
    ELSE "none"

\* faulty variant: the ON branch without its `last_lamp_action != "on"` test
lamp_decision_stateless(a, b, last) ==
    IF a.lamp_enabled
    THEN IF b < a.lamp_on_threshold THEN "on"
         ELSE IF b > a.lamp_off_threshold /\ last # "off" THEN "off"
         ELSE "none"
    ELSE "none"

\* faulty variant: the policy switched off while the thresholds are out of order
lamp_decision_validated(a, b, last) ==
    IF a.lamp_enabled /\ a.lamp_on_threshold < a.lamp_off_threshold
    THEN IF b < a.lamp_on_threshold /\ last # "on" THEN "on"
         ELSE IF b > a.lamp_off_threshold /\ last # "off" THEN "off"
         ELSE "none"
    ELSE "none"

\* the branch lines 174-184 take: "on" (175-179), "off" (180-184) or "none"
lamp_decision(a, b, last) ==
    IF a.lamp_enabled
    THEN IF b < a.lamp_on_threshold /\ last # "on" THEN "on"
         ELSE IF b > a.lamp_off_threshold /\ last # "off" THEN "off"
         ELSE "none"
    ELSE "none"

\* if automation.lamp_enabled: if ...: elif ...:
W_L174 ==
    /\ wpc = "L174"
    /\ wpc' = CASE lamp_decision(automation[1], brightness[1], last_lamp_action) = "on" -> "L176"
                [] lamp_decision(automation[1], brightness[1], last_lamp_action) = "off" -> "L181"
                [] OTHER -> "L185"
    /\ UNCHANGED <<config, state, mqtt_client, config_lock, state_lock, camera_index,
                   automation, topics, cap, ret, frame, brightness, presence, last_presence,
                   last_brightness, last_lamp_action, frames, busvars, written, gvars,
                   uvars, svars, mvars, connected, envvars, handles, resumed>>

\* faulty variant: the State Store not told of the ON command
after_L177_unwritten == "L185"

\* where the worker goes after line 177: to the `with state_lock:` that records the lamp
after_L177 == "L178"

\* publish(topics.lamp_control, {"state": 1, "source": "camera"}); last_lamp_action = "on"
W_L176 ==
    /\ wpc = "L176"
    /\ publish(topics[1].lamp_control, [state |-> 1, source |-> "camera"])
    /\ last_lamp_action' = "on"
    /\ run' = [run EXCEPT !.ons = @ + Len(sent') - Len(sent)]
    /\ wpc' = after_L177
    /\ UNCHANGED <<config, state, mqtt_client, config_lock, state_lock, camera_index,
                   automation, topics, cap, ret, frame, brightness, presence, last_presence,
                   last_brightness, frames, pubValue, written, gvars,
                   uvars, svars, mvars, connected, envvars, handles, resumed>>

\* with state_lock: (entering)
W_L178 ==
    /\ wpc = "L178"
    /\ state_lock_free
    /\ state_lock' = "worker"
    /\ wpc' = "L179"
    /\ UNCHANGED <<config, state, mqtt_client, config_lock, camera_index, automation, topics,
                   cap, ret, frame, brightness, presence, last_presence, last_brightness,
                   last_lamp_action, frames, busvars, written, gvars, uvars, svars, mvars, connected, envvars, handles, resumed>>

\* state.lamp_state = 1, and the with block ends
W_L179 ==
    /\ wpc = "L179"
    /\ state' = [state EXCEPT !.lamp_state = 1]
    /\ state_lock' = "free"
    /\ wpc' = "L185"
    /\ UNCHANGED <<config, mqtt_client, config_lock, camera_index, automation,
                   topics, cap, ret, frame, brightness, presence, last_presence,
                   last_brightness, last_lamp_action, frames, busvars, written, gvars,
                   uvars, svars, mvars, connected, envvars, handles, resumed>>

\* publish(topics.lamp_control, {"state": 0, "source": "camera"}); last_lamp_action = "off"
W_L181 ==
    /\ wpc = "L181"
    /\ publish(topics[1].lamp_control, [state |-> 0, source |-> "camera"])
    /\ last_lamp_action' = "off"
    /\ UNCHANGED run
    /\ wpc' = "L183"
    /\ UNCHANGED <<config, state, mqtt_client, config_lock, state_lock, camera_index,
                   automation, topics, cap, ret, frame, brightness, presence, last_presence,
                   last_brightness, frames, pubValue, written, gvars,
                   uvars, svars, mvars, connected, envvars, handles, resumed>>

\* with state_lock: (entering)
W_L183 ==
    /\ wpc = "L183"
    /\ state_lock_free
    /\ state_lock' = "worker"
    /\ wpc' = "L184"
    /\ UNCHANGED <<config, state, mqtt_client, config_lock, camera_index, automation, topics,
                   cap, ret, frame, brightness, presence, last_presence, last_brightness,
                   last_lamp_action, frames, busvars, written, gvars, uvars, svars, mvars, connected, envvars, handles, resumed>>

\* state.lamp_state = 0, and the with block ends
W_L184 ==
    /\ wpc = "L184"
    /\ state' = [state EXCEPT !.lamp_state = 0]
    /\ state_lock' = "free"
    /\ wpc' = "L185"
    /\ UNCHANGED <<config, mqtt_client, config_lock, camera_index, automation,
                   topics, cap, ret, frame, brightness, presence, last_presence,
                   last_brightness, last_lamp_action, frames, busvars, written, gvars,
                   uvars, svars, mvars, connected, envvars, handles, resumed>>

\* time.sleep(0.2), back to `while cap.isOpened()`
W_L185 ==
    /\ wpc = "L185"
    /\ wpc' = "L156"
    /\ resumed' = FALSE
    /\ UNCHANGED <<config, state, mqtt_client, config_lock, state_lock, camera_index,
                   automation, topics, cap, ret, frame, brightness, presence, last_presence,
                   last_brightness, last_lamp_action, frames, busvars, written, gvars,
                   uvars, svars, mvars, connected, envvars, handles>>

\* cap.release()
W_L186 ==
    /\ wpc = "L186"
    /\ cap' = "released"
    /\ handles' = IF cap = "opened" THEN handles - 1 ELSE handles
    /\ wpc' = "L187"
    /\ UNCHANGED <<config, state, mqtt_client, config_lock, state_lock, camera_index,
                   automation, topics, ret, frame, brightness, presence, last_presence,
                   last_brightness, last_lamp_action, frames, busvars, written, gvars,
                   uvars, svars, mvars, connected, envvars, resumed>>

\* faulty variant: last_brightness and last_presence initialised inside `while True`
reset_by_outer_loop(last) == None

\* what a round of `while True` finds in last_brightness and last_presence: lines 144-145
\* are before the loop, so what the round before left there
kept_by_outer_loop(last) == last

\* time.sleep(1), back to `while True`
W_L187 ==
    /\ wpc = "L187"
    /\ wpc' = "L148"
    /\ last_presence' = kept_by_outer_loop(last_presence)
    /\ last_brightness' = kept_by_outer_loop(last_brightness)
    /\ UNCHANGED <<config, state, mqtt_client, config_lock, state_lock, camera_index,
                   automation, topics, cap, ret, frame, brightness, presence,
                   last_lamp_action, frames, busvars, written, gvars,
                   uvars, svars, mvars, connected, envvars, handles, resumed>>

----------------------------------------------------------------------------
(* GET /api/config *)

\* dataclasses.asdict: the same fields and values, as a fresh dict
asdict(c) == [k \in DOMAIN c |-> c[k]]

\* with config_lock: (entering), lines 205 and 211
config_lock_free == config_lock = "free"

G_L205 ==
    /\ gpc = "idle"
    /\ config_lock_free
    /\ config_lock' = "get_config"
    /\ gpc' = "L206"
    /\ UNCHANGED <<config, state, mqtt_client, state_lock, wvars, frames, busvars,
                   written, uvars, svars, mvars, connected, envvars>>

\* return asdict(config), and the with block ends: the body returned is asdict(config)
G_L206 ==
    /\ gpc = "L206"
    /\ config_lock' = "free"
    /\ gpc' = "idle"
    /\ UNCHANGED <<config, state, mqtt_client, state_lock, wvars, frames, busvars,
                   written, uvars, svars, mvars, connected, envvars>>

----------------------------------------------------------------------------
(* POST /api/config *)

\* lines 212-228: updated = BackendConfig(**asdict(config)), then every field of the payload
\* that is not None assigned over it
Patched(cfg, payload) ==
    [k \in DOMAIN cfg |-> IF payload[k] # None THEN payload[k][1] ELSE asdict(cfg)[k]]

\* faulty variant: the global patched in place, field by field, and the exception raised after
\* `topics` was assigned: the fields before it are new, the others old
update_config_in_place(cfg, payload) ==
    [config |-> [cfg EXCEPT !.topics = IF payload.topics # None THEN payload.topics[1] ELSE @],
     raised |-> TRUE,
     response |-> [status |-> "UnboundLocalError", config |-> None]]

\* The body of update_config, run with the global config cfg.  The function assigns
\* `config = updated` (line 230) and declares no `global config`, so `config` is a local
\* of update_config: line 212 reads it unbound and raises UnboundLocalError.  The with
\* block is left by the exception, save_config is not reached, the global keeps its value
\* and the request ends as an internal server error.
update_config(cfg, payload) ==
    [config |-> cfg, raised |-> TRUE,
     response |-> [status |-> "UnboundLocalError", config |-> None]]

\* with config_lock: (entering)
U_L211 ==
    /\ upc = "idle"
    /\ config_lock_free
    /\ \E p \in Payloads : upayload' = Some(p)
    /\ uprior' = Some(config)
    /\ uresponse' = None
    /\ config_lock' = "update_config"
    /\ upc' = "L212"
    /\ UNCHANGED <<config, state, mqtt_client, state_lock, wvars, frames, busvars,
                   written, gvars, svars, mvars, connected, envvars>>

\* lines 212-231, and the with block ends
U_L212 ==
    /\ upc = "L212"
    /\ config' = update_config(config, upayload[1]).config
    /\ uresponse' = Some(update_config(config, upayload[1]).response)
    /\ config_json' = IF update_config(config, upayload[1]).raised THEN config_json
                      ELSE Some(asdict(update_config(config, upayload[1]).config))
    /\ config_lock' = "free"
    /\ upc' = "idle"
    /\ UNCHANGED <<state, mqtt_client, state_lock, wvars, frames, busvars,
                   written, gvars, svars, upayload, uprior, mvars, connected,
                   scene, inbox>>

----------------------------------------------------------------------------
(* GET /api/status *)

\* faulty variant: get_status without its `with state_lock:`
status_enters_unlocked == TRUE

\* with state_lock: (entering), line 236
status_may_enter == state_lock = "free"

S_L236 ==
    /\ spc = "idle"
    /\ status_may_enter
    /\ state_lock' = "get_status"
    /\ spc' = "L237"
    /\ UNCHANGED <<config, state, mqtt_client, config_lock, wvars, frames, busvars,
                   written, gvars, uvars, mvars, connected, envvars>>

\* return state.model_dump(), and the with block ends: the body returned is state
S_L237 ==
    /\ spc = "L237"
    /\ state_lock' = "free"
    /\ spc' = "idle"
    /\ UNCHANGED <<config, state, mqtt_client, config_lock, wvars, frames, busvars,
                   written, gvars, uvars, mvars, connected, envvars>>

----------------------------------------------------------------------------
(* The MQTT client: its network thread runs mqtt_on_connect and mqtt_on_message *)

\* bool(v) of a Python value
truthy(v) ==
    IF "number" \in DOMAIN v THEN v.number # 0
    ELSE IF "string" \in DOMAIN v THEN v.string # ""
    ELSE IF "object" \in DOMAIN v THEN DOMAIN v.object # {}
    ELSE FALSE

\* `a or b`
or(a, b) == IF truthy(a) THEN a ELSE b

\* payload.get("value") or payload.get("temperature") or payload.get("temp")
get_temp(d) ==
    or(or(Get(d, "value", PyNone), Get(d, "temperature", PyNone)), Get(d, "temp", PyNone))

\* faulty variant: the rest of mqtt_on_message indented under its `with config_lock:`
nested_with_L106 == "mqtt"

\* the holder of config_lock when the with block of lines 106-107 ends
end_with_L106 == "free"

\* the program counter of the network thread when a callback returns, and when it raises
Returned == "idle"
Raised == "raised"

\* a broker connection is established (CONNACK): the client calls on_connect
Connack ==
    /\ ~connected
    /\ mpc = "idle"
    /\ connected' = TRUE
    /\ mpc' = "L100"
    /\ UNCHANGED <<config, state, mqtt_client, config_lock, state_lock, wvars, frames,
                   busvars, written, gvars, uvars, svars, envvars, subscribed, msg,
                   topic_temp, mpayload, temp>>

\* the connection is lost, and the subscription with it
Disconnect ==
    /\ connected
    /\ connected' = FALSE
    /\ subscribed' = None
    /\ UNCHANGED <<config, state, mqtt_client, config_lock, state_lock, wvars, frames,
                   busvars, written, gvars, uvars, svars, envvars, mpc, msg,
                   topic_temp, mpayload, temp>>

\* mqtt_on_connect: with config_lock: (entering)
C_L100 ==
    /\ mpc = "L100"
    /\ config_lock_free
    /\ config_lock' = "mqtt"
    /\ mpc' = "L101"
    /\ UNCHANGED <<config, state, mqtt_client, state_lock, wvars, frames, busvars, written,
                   gvars, uvars, svars, envvars, connected, subscribed, msg,
                   topic_temp, mpayload, temp>>

\* topic_temp = config.topics.temperature, and the with block ends
C_L101 ==
    /\ mpc = "L101"
    /\ topic_temp' = Some(config.topics.temperature)
    /\ config_lock' = "free"
    /\ mpc' = "L102"
    /\ UNCHANGED <<config, state, mqtt_client, state_lock, wvars, frames, busvars, written,
                   gvars, uvars, svars, envvars, connected, subscribed, msg,
                   mpayload, temp>>

\* client.subscribe(topic_temp)
C_L102 ==
    /\ mpc = "L102"
    /\ subscribed' = IF connected THEN topic_temp ELSE subscribed
    /\ topic_temp' = None
    /\ mpc' = Returned
    /\ UNCHANGED <<config, state, mqtt_client, config_lock, state_lock, wvars, frames,
                   busvars, written, gvars, uvars, svars, envvars, connected, msg,
                   mpayload, temp>>

\* a message arrives on the subscribed topic; mqtt_on_message: with config_lock: (entering)
M_L106 ==
    /\ mpc = "idle"
    /\ connected
    /\ subscribed # None
    /\ config_lock_free
    /\ \E p \in inbox : msg' = Some([topic |-> subscribed[1], payload |-> p])
    /\ config_lock' = "mqtt"
    /\ mpc' = "L107"
    /\ UNCHANGED <<config, state, mqtt_client, state_lock, wvars, frames, busvars, written,
                   gvars, uvars, svars, envvars, connected, subscribed,
                   topic_temp, mpayload, temp>>

\* topic_temp = config.topics.temperature, and the with block ends
M_L107 ==
    /\ mpc = "L107"
    /\ topic_temp' = Some(config.topics.temperature)
    /\ config_lock' = end_with_L106
    /\ mpc' = "L108"
    /\ UNCHANGED <<config, state, mqtt_client, state_lock, wvars, frames, busvars, written,
                   gvars, uvars, svars, envvars, connected, subscribed, msg,
                   mpayload, temp>>

\* the callback is over: its locals are gone
locals_dropped ==
    /\ msg' = None
    /\ topic_temp' = None
    /\ mpayload' = None
    /\ temp' = None

\* if msg.topic != topic_temp: return
M_L108 ==
    /\ mpc = "L108"
    /\ IF msg[1].topic # topic_temp[1]
       THEN mpc' = Returned /\ locals_dropped
       ELSE mpc' = "L111" /\ UNCHANGED <<msg, topic_temp, mpayload, temp>>
    /\ UNCHANGED <<config, state, mqtt_client, config_lock, state_lock, wvars, frames,
                   busvars, written, gvars, uvars, svars, envvars, connected,
                   subscribed>>

\* payload = json.loads(msg.payload.decode()): decode raises UnicodeDecodeError, which the
\* `except json.JSONDecodeError` of line 117 does not catch; json.loads raises
\* JSONDecodeError, which it catches (return)
M_L111 ==
    /\ mpc = "L111"
    /\ IF msg[1].payload = Undecodable
       THEN mpc' = Raised /\ locals_dropped
       ELSE IF msg[1].payload = NotJson
       THEN mpc' = Returned /\ locals_dropped
       ELSE /\ mpayload' = Some(msg[1].payload.json)
            /\ mpc' = "L112"
            /\ UNCHANGED <<msg, topic_temp, temp>>
    /\ UNCHANGED <<config, state, mqtt_client, config_lock, state_lock, wvars, frames,
                   busvars, written, gvars, uvars, svars, envvars, connected,
                   subscribed>>

\* temp = payload.get("value") or payload.get("temperature") or payload.get("temp"):
\* AttributeError (not caught) when the document is not an object
M_L112 ==
    /\ mpc = "L112"
    /\ IF "object" \notin DOMAIN mpayload[1]
       THEN mpc' = Raised /\ locals_dropped
       ELSE /\ temp' = Some(get_temp(mpayload[1].object))
            /\ mpc' = "L113"
            /\ UNCHANGED <<msg, topic_temp, mpayload>>
    /\ UNCHANGED <<config, state, mqtt_client, config_lock, state_lock, wvars, frames,
                   busvars, written, gvars, uvars, svars, envvars, connected,
                   subscribed>>

\* if temp is None: return
M_L113 ==
    /\ mpc = "L113"
    /\ IF temp[1] = PyNone
       THEN mpc' = Returned /\ locals_dropped
       ELSE mpc' = "L115" /\ UNCHANGED <<msg, topic_temp, mpayload, temp>>
    /\ UNCHANGED <<config, state, mqtt_client, config_lock, state_lock, wvars, frames,
                   busvars, written, gvars, uvars, svars, envvars, connected,
                   subscribed>>

\* with state_lock: (entering)
M_L115 ==
    /\ mpc = "L115"
    /\ state_lock_free
    /\ state_lock' = "mqtt"
    /\ mpc' = "L116"
    /\ UNCHANGED <<config, state, mqtt_client, config_lock, wvars, frames, busvars, written,
                   gvars, uvars, svars, envvars, connected, subscribed, msg,
                   topic_temp, mpayload, temp>>

\* state.temperature = float(temp), and the with block ends: float raises ValueError (not
\* caught) for a string that is not a number, before anything is assigned
M_L116 ==
    /\ mpc = "L116"
    /\ IF "number" \in DOMAIN temp[1]
       THEN /\ state' = [state EXCEPT !.temperature = Some(temp[1].number)]
            /\ mpc' = Returned
       ELSE /\ UNCHANGED state
            /\ mpc' = Raised
    /\ locals_dropped
    /\ state_lock' = "free"
    /\ UNCHANGED <<config, mqtt_client, config_lock, wvars, frames, busvars, written,
                   gvars, uvars, svars, envvars, connected, subscribed>>

----------------------------------------------------------------------------

Mqtt ==
    \/ C_L100 \/ C_L101 \/ C_L102
    \/ M_L106 \/ M_L107 \/ M_L108 \/ M_L111 \/ M_L112 \/ M_L113 \/ M_L115 \/ M_L116

Worker ==
    \/ W_L148 \/ W_L149 \/ W_L150 \/ W_L151 \/ W_L152 \/ W_L154 \/ W_L156 \/ W_L157
    \/ W_L160 \/ W_L164 \/ W_L167 \/ W_L170 \/ W_L171 \/ W_L172 \/ W_L173 \/ W_L174
    \/ W_L176 \/ W_L178 \/ W_L179 \/ W_L181 \/ W_L183 \/ W_L184 \/ W_L185 \/ W_L186
    \/ W_L187

Next ==
    \/ Worker
    \/ G_L205 \/ G_L206
    \/ U_L211 \/ U_L212
    \/ S_L236 \/ S_L237

Spec == Init /\ [][Next]_vars

\* Scheduling.  Every thread that can take a step eventually takes one: the worker
\* (daemon thread of on_startup) and a handler inside its with block.  A thread waiting for
\* a lock that is released again and again eventually gets it.  Requests arrive or not.
WorkerAcquire == W_L148 \/ W_L170 \/ W_L178 \/ W_L183
WorkerStep ==
    \/ W_L149 \/ W_L150 \/ W_L151 \/ W_L152 \/ W_L154 \/ W_L156 \/ W_L157 \/ W_L160
    \/ W_L164 \/ W_L167 \/ W_L171 \/ W_L172 \/ W_L173 \/ W_L174 \/ W_L176 \/ W_L179
    \/ W_L181 \/ W_L184 \/ W_L185 \/ W_L186 \/ W_L187
Fairness ==
    /\ WF_vars(WorkerStep)
    /\ SF_vars(WorkerAcquire)
    /\ WF_vars(G_L206)
    /\ WF_vars(S_L237)

\* The worker with one contender for each of its locks, get_config for config_lock and
\* get_status for state_lock, started without a config.json (the defaults).
LiveInit == Init /\ config_json = None
LiveNext ==
    \/ Worker
    \/ G_L205 \/ G_L206
    \/ S_L236 \/ S_L237
LiveSpec == LiveInit /\ [][LiveNext]_vars /\ Fairness

\* Every thread of the process: the worker, the MQTT network thread and one request of
\* each HTTP handler, started without a config.json
ThreadInit ==
    /\ config_json = None
    /\ scene = DarkAndBright
    /\ inbox = ReadingOrText
    /\ on_startup
ThreadNext ==
    \/ Worker
    \/ Mqtt
    \/ G_L205 \/ G_L206
    \/ U_L211 \/ U_L212
    \/ S_L236 \/ S_L237
ThreadSpec == ThreadInit /\ [][ThreadNext]_vars

\* The worker and the MQTT client over a connection that is lost and made again
OutageNext ==
    \/ Worker
    \/ Disconnect \/ Connack
    \/ C_L100 \/ C_L101 \/ C_L102
\* The MQTT network thread with a contender for each lock it takes, any payload arriving
MessageNext ==
    \/ Mqtt
    \/ Disconnect \/ Connack
    \/ G_L205 \/ G_L206
    \/ S_L236 \/ S_L237
MessageSpec == Init /\ [][MessageNext]_vars

OutageInit ==
    /\ config_json \in ConfigFiles
    /\ scene = DarkAndBright
    /\ inbox = MessagePayloads
    /\ on_startup
OutageSpec == OutageInit /\ [][OutageNext]_vars

----------------------------------------------------------------------------
(* What the bus and the configuration show, for the properties below *)

OnThreshold == config.automation.lamp_on_threshold
OffThreshold == config.automation.lamp_off_threshold
Enabled == config.automation.lamp_enabled
Hysteretic == Enabled /\ OnThreshold < OffThreshold

\* the lamp commands among the messages q
LampMsgs(q) == SelectSeq(q, LAMBDA m : m.topic = config.topics.lamp_control)
\* the state the last lamp command on the bus carried, 0 when there was none
BusLampState ==
    IF retained[config.topics.lamp_control] = None THEN 0
    ELSE retained[config.topics.lamp_control][1].state
BusLastAction == IF BusLampState = 1 THEN "on" ELSE "off"
\* brightness b crosses a threshold, given the last command
Crossing(b, last) ==
    \/ b < OnThreshold /\ last = "off"
    \/ b > OffThreshold /\ last = "on"
\* this step publishes a message
Publishes == sent' # sent /\ sent' # << >>
Published == sent'[Len(sent')]

----------------------------------------------------------------------------
(* C1: no flapping.  With automation enabled and onThreshold < offThreshold, every lamp
   command the loop publishes carries the state opposite to the previous command's (the
   first is ON), it is published in an iteration whose brightness crosses the threshold
   for the last command (below onThreshold after OFF or nothing, above offThreshold after
   ON), an iteration publishes at most one command, and an iteration that ends without a
   command is one whose brightness does not cross. *)
C1_NoFlap ==
    [][ Hysteretic =>
          /\ (Publishes /\ Published.topic = config.topics.lamp_control) =>
                /\ Published.payload.state # BusLampState
                /\ Crossing(frame[1].b, BusLastAction)
                /\ (Published.payload.state = 1) <=> (frame[1].b < OnThreshold)
                /\ LampMsgs(sent) = << >>
          /\ (wpc # "L185" /\ wpc' = "L185" /\ LampMsgs(sent') = << >>) =>
                ~Crossing(frame[1].b, BusLastAction)
      ]_vars

\* an iteration whose brightness is below onThreshold ends without a command, the lamp
\* having been commanded ON by an earlier iteration
C1_Witness ==
    /\ Hysteretic
    /\ wpc = "L185"
    /\ frames >= 2
    /\ frame[1].b < OnThreshold
    /\ BusLampState = 1
    /\ LampMsgs(sent) = << >>

(* C2 as amended: with automation enabled, over a run of consecutive frames of one
   brightness that is below onThreshold and not above offThreshold, at most one lamp-ON
   command is published, and none when the last command before the run was ON. *)
C2_HysteresisIdempotence ==
    (Enabled /\ run.b # None /\ run.b[1] < OnThreshold /\ ~(run.b[1] > OffThreshold))
        => /\ run.ons <= 1
           /\ run.was = 1 => run.ons = 0

\* three consecutive frames of one brightness below both thresholds, one ON command
C2_Witness ==
    /\ Enabled /\ run.b # None /\ run.b[1] < OnThreshold /\ ~(run.b[1] > OffThreshold)
    /\ run.n = 3
    /\ run.ons = 1
    /\ wpc = "L185"

(* C2 as claimed: with automation enabled, over a run of consecutive frames of one
   brightness below onThreshold, at most one lamp-ON command is published. *)
C2_Original ==
    (Enabled /\ run.b # None /\ run.b[1] < OnThreshold) => run.ons <= 1

(* C3: change-gated publish.  The brightness gate of an iteration publishes exactly one
   message, the rounded brightness on the brightness topic, when the frame's brightness
   differs from the value of the last brightness publish (or none was made), and nothing
   otherwise; likewise the presence gate; no other step publishes on these topics. *)
C3_ChangeGated ==
    [][ /\ (wpc = "L164" /\ wpc' # wpc) =>
              sent' = IF pubValue.brightness # Some(frame[1].b)
                      THEN Append(sent, [topic |-> config.topics.brightness,
                                         payload |-> [value |-> round3(frame[1].b)]])
                      ELSE sent
        /\ (wpc = "L167" /\ wpc' # wpc) =>
              sent' = IF pubValue.presence # Some(frame[1].p)
                      THEN Append(sent, [topic |-> config.topics.presence,
                                         payload |-> [value |-> IF frame[1].p THEN 1 ELSE 0]])
                      ELSE sent
        /\ (Publishes /\ Published.topic \in {config.topics.brightness, config.topics.presence})
              => wpc \in {"L164", "L167"}
      ]_vars

\* a later iteration has published its presence, which differs from the last one published,
\* and not its brightness, which equals the last one published
C3_Witness ==
    /\ wpc = "L170"
    /\ frames >= 2
    /\ Len(sent) = 1
    /\ sent[1].topic = config.topics.presence
    /\ pubValue.brightness = Some(frame[1].b)

----------------------------------------------------------------------------
(* The latest replace, for the properties below *)

\* a call of update_config has returned and none is running
Replaced == upc = "idle" /\ uresponse # None
\* the snapshot the latest replace is to produce: the config it found, with its patch applied
PatchedSnapshot == Patched(uprior[1], upayload[1])
\* the complete snapshots around the latest replace: the one before it and the one after it
Snapshots == IF upayload = None THEN {config} ELSE {uprior[1], PatchedSnapshot}

(* C4: config atomicity.  The body get_config returns, and the camera index, automation
   and topics the worker has read when it leaves its `with config_lock:` block, are those
   of one complete snapshot: the config before the latest replace or the config that
   replace is to produce, never some fields of one and some of the other. *)
C4_ConfigAtomicity ==
    [][ /\ (gpc = "L206" /\ gpc' = "idle") => asdict(config) \in Snapshots
        /\ (wpc = "L151" /\ wpc' = "L152") =>
              \E c \in Snapshots : /\ camera_index' = Some(c.camera_index)
                                   /\ automation' = Some(c.automation)
                                   /\ topics' = Some(c.topics)
      ]_vars

\* get_config is about to return its body after a replace has returned, the worker waiting
\* at line 148 for the lock get_config holds
C4_Witness ==
    /\ gpc = "L206"
    /\ Replaced
    /\ wpc = "L148"
    /\ frames >= 1

(* C5 as claimed: after a replace has returned, every field absent from its patch has the
   value it had in the prior snapshot and every field present in the patch, the topics and
   automation sub-objects included, has the patch's value. *)
C5_PartialPatch ==
    Replaced =>
        \A k \in DOMAIN config :
            config[k] = IF upayload[1][k] = None THEN uprior[1][k] ELSE upayload[1][k][1]

(* C6 as claimed: after a replace has returned, its response carries the prior snapshot
   with the patch applied, and so does the body of every get_config that returns before
   the next replace. *)
C6_ReplaceTakesEffect ==
    Replaced =>
        /\ uresponse[1].status = "updated"
        /\ uresponse[1].config = Some(asdict(PatchedSnapshot))
        /\ gpc = "L206" => asdict(config) = asdict(PatchedSnapshot)

(* C7 as claimed: an iteration of the loop that starts (reads its frame) after a replace
   has returned works with that replace's thresholds and topics. *)
C7_NextIterationUsesReplace ==
    [][ (wpc = "L157" /\ wpc' = "L160" /\ Replaced) =>
            /\ automation' = Some(PatchedSnapshot.automation)
            /\ topics' = Some(PatchedSnapshot.topics)
      ]_vars

(* C8: a status snapshot is never torn.  Whenever get_status returns state.model_dump(),
   the brightness, presence and last_seen it copies were written from the same frame. *)
C8_StatusNotTorn ==
    [][ (spc = "L237" /\ spc' = "idle") =>
            /\ written.brightness = written.presence
            /\ written.presence = written.last_seen
      ]_vars

\* get_status is inside its `with state_lock:` block, about to copy the state written from
\* the first frame, while the worker waits at line 170 to write the second frame
C8_Witness ==
    /\ spc = "L237"
    /\ wpc = "L170"
    /\ frames = 2
    /\ written.last_seen = 1

\* the fields of the State Store the loop writes
Sensed(s) == <<s.brightness, s.presence, s.last_seen, s.lamp_state>>

(* C9: the loop writes the State Store and publishes only for a frame it has read.  Every
   step that changes brightness, presence, last_seen or lamp_state, or puts a message on
   the bus, is a step of the iteration of a successfully read frame (the source open,
   ret true); so nothing is written or published before the first successful read. *)
C9_NoWriteWithoutFrame ==
    [][ (Sensed(state') # Sensed(state) \/ retained' # retained \/ Publishes) =>
            /\ cap' = "opened"
            /\ ret' = Some(TRUE)
            /\ frame' # None
            /\ frames' >= 1
      ]_vars

\* after a read failure and a failed re-open the status still shows the last frame read
C9_Witness ==
    /\ wpc = "L154"
    /\ cap = "failed"
    /\ ret = Some(FALSE)
    /\ state.brightness # None
    /\ state.brightness = last_brightness
    /\ state.last_seen # None

(* C10: device faults never stop the loop.  Under LiveSpec, after a failed open (the
   worker at its sleep(3)) and after the inner loop was left on a read failure or a closed
   source (the worker at cap.release()), the worker comes to open the source again; and
   every frame the source delivers comes to be in the State Store: brightness, presence
   and last_seen written from that frame, with that frame's readings. *)
C10_LoopRecovers ==
    /\ (wpc \in {"L154", "L186"}) ~> (wpc = "L152")
    /\ (wpc = "L160")
          ~> /\ wpc = "L174"
             /\ written = [brightness |-> frames, presence |-> frames, last_seen |-> frames]
             /\ frame # None
             /\ state.brightness = Some(frame[1].b)
             /\ state.presence = frame[1].p

\* the worker is about to open the source again after a failed open, frames read before
C10_Witness ==
    /\ wpc = "L152"
    /\ cap = "failed"
    /\ frames >= 1

----------------------------------------------------------------------------
(* The locks, for the properties below *)

Threads == {"worker", "mqtt", "get_config", "update_config", "get_status"}
Holds(t) == config_lock = t \/ state_lock = t
\* the statements of the worker and of the network thread that block: opening, reading and
\* releasing the camera, detection, publishing, subscribing, sleeping
WorkerBlocking ==
    {"L152", "L154", "L157", "L160", "L164", "L167", "L176", "L181", "L185", "L186", "L187"}
MqttBlocking == {"L102"}

(* C11: no thread holds config_lock and state_lock at the same time, and the threads never
   deadlock on them: a thread that holds a lock can always take its next step, so every
   lock that is held is released again. *)
C11_LocksNeverNested ==
    /\ \A t \in Threads : ~(config_lock = t /\ state_lock = t)
    /\ Holds("worker") => ENABLED Worker
    /\ Holds("mqtt") => ENABLED Mqtt
    /\ Holds("get_config") => ENABLED G_L206
    /\ Holds("update_config") => ENABLED U_L212
    /\ Holds("get_status") => ENABLED S_L237

\* both locks are held, by two threads: the network thread is writing the temperature
\* under state_lock while the worker reads the config under config_lock
C11_Witness ==
    /\ state_lock = "mqtt"
    /\ mpc = "L116"
    /\ config_lock = "worker"
    /\ frames >= 1

(* C12: a lock is held only over one in-memory read or write.  The worker holds
   config_lock only while it reads the three fields of the config (lines 149-151) and
   state_lock only while it writes the State Store (171-173, 179, 184); the network thread
   holds config_lock only to read the topic and state_lock only to write the temperature;
   no thread takes a blocking step (camera, detection, publish, subscribe, sleep) or
   writes config.json while it holds a lock. *)
C12_NoLockAcrossIO ==
    [][ /\ config_lock = "worker" => wpc \in {"L149", "L150", "L151"}
        /\ state_lock = "worker" => wpc \in {"L171", "L172", "L173", "L179", "L184"}
        /\ config_lock = "mqtt" => mpc \in {"L101", "L107"}
        /\ state_lock = "mqtt" => mpc = "L116"
        /\ (wpc \in WorkerBlocking /\ wpc' # wpc) => ~Holds("worker")
        /\ (mpc \in MqttBlocking /\ mpc' # mpc) => ~Holds("mqtt")
        /\ (sent' # sent \/ issued' # issued) => ~Holds("worker")
        /\ config_json' # config_json => ~Holds("update_config")
        /\ (config_lock = "worker" /\ wpc' # wpc) => state' = state /\ config' = config
      ]_vars

\* the worker is about to publish a lamp command while get_config holds config_lock and
\* get_status holds state_lock
C12_Witness ==
    /\ wpc = "L176"
    /\ config_lock = "get_config"
    /\ state_lock = "get_status"

----------------------------------------------------------------------------
(* The message the network thread is handling, for the properties below *)

AcceptedKeys == {"value", "temperature", "temp"}
\* mqtt_on_message ends with this step, returning or raising
HandlerEnds == msg # None /\ mpc' \in {Returned, Raised}
OnTemperatureTopic == msg[1].topic = config.topics.temperature
IsObject == "json" \in DOMAIN msg[1].payload /\ "object" \in DOMAIN msg[1].payload.json
\* the numbers the payload carries under the accepted keys
NumericValues ==
    IF IsObject
    THEN LET d == msg[1].payload.json.object
         IN  {d[k].number : k \in {a \in AcceptedKeys \cap DOMAIN d : "number" \in DOMAIN d[a]}}
    ELSE {}
\* not JSON, JSON without an accepted key, or no number under the accepted keys it has
Malformed ==
    \/ ~IsObject
    \/ LET d == msg[1].payload.json.object
       IN  \A k \in AcceptedKeys \cap DOMAIN d : "number" \notin DOMAIN d[k]

(* C13 as claimed: when mqtt_on_message has handled a message on the configured
   temperature topic whose JSON payload carries a number under an accepted key, the State
   Store's temperature is that number, 0 included. *)
C13_TemperatureStored ==
    [][ (HandlerEnds /\ OnTemperatureTopic /\ NumericValues # {}) =>
            \E n \in NumericValues : state'.temperature = Some(n)
      ]_vars

(* C14 as claimed: a malformed message on the temperature topic is dropped silently: the
   handler returns without raising and leaves the State Store as it was. *)
C14_MalformedDropped ==
    [][ (HandlerEnds /\ OnTemperatureTopic /\ Malformed) =>
            /\ mpc' = Returned
            /\ state' = state
      ]_vars

----------------------------------------------------------------------------
(* The publishing steps of the worker, for the properties below *)

\* the worker is at a call of publish
AtPublish ==
    \/ wpc = "L164" /\ changed(brightness[1], last_brightness)
    \/ wpc = "L167" /\ changed(presence[1], last_presence)
    \/ wpc \in {"L176", "L181"}
NoConnection == mqtt_client = None \/ ~connected

(* C15: without a bus connection publish is a silent no-op.  A call of publish made while
   the client has no connection puts nothing on the bus, then or later (only a call made
   with a connection changes the bus), the worker is never blocked at it, and the
   iteration goes on as after a publish that succeeded: the value counts as published and
   the worker moves to the statement after it. *)
C15_PublishNoOp ==
    [][ /\ (AtPublish /\ NoConnection) => ENABLED Worker
        /\ (AtPublish /\ NoConnection /\ wpc' # wpc) =>
              /\ sent' = sent /\ retained' = retained
              /\ wpc = "L164" => wpc' = "L167" /\ last_brightness' = brightness
              /\ wpc = "L167" => wpc' = "L170" /\ last_presence' = presence
              /\ wpc = "L176" => wpc' = "L178" /\ last_lamp_action' = "on"
              /\ wpc = "L181" => wpc' = "L183" /\ last_lamp_action' = "off"
        /\ (sent' # sent \/ retained' # retained) =>
              \/ AtPublish /\ ~NoConnection /\ wpc' # wpc
              \/ wpc = "L157" /\ retained' = retained
      ]_vars

\* the lamp-ON command was issued without a connection: nothing is on the bus, and the
\* worker has gone on to record the lamp as on
C15_Witness ==
    /\ wpc = "L185"
    /\ ~connected
    /\ issued[config.topics.lamp_control] # None
    /\ retained[config.topics.lamp_control] = None
    /\ last_lamp_action = "on"
    /\ state.lamp_state = 1

(* C16: the frame source handle is scoped.  At most one handle is open at any moment; the
   handle is open exactly while the worker is in its inner loop or on its way to
   cap.release(); and whenever the worker comes to open the source (line 152), after a
   failed open, a read failure or a source that reported closed, no handle is open. *)
C16_HandleScoped ==
    /\ handles \in {0, 1}
    /\ handles = 1 <=> cap = "opened"
    /\ wpc \in {"L148", "L149", "L150", "L151", "L152", "L154", "L187"} => handles = 0

\* the worker is about to open the source again after a read failure and a release
C16_Witness ==
    /\ wpc = "L152"
    /\ cap = "released"
    /\ ret = Some(FALSE)
    /\ frames >= 1
    /\ handles = 0

----------------------------------------------------------------------------
(* C17: inverse thresholds never settle.  With automation enabled and onThreshold >
   offThreshold, every iteration whose brightness lies strictly between the two publishes
   exactly one lamp command, of the state opposite to the command before it (ON when there
   was none); so over a run of n frames of one such brightness the commands alternate:
   (n + 1) / 2 of them are ON, rounded down, when the lamp was last commanded off, and
   n / 2 when it was last commanded on. *)
C17_InverseOscillates ==
    [][ (Enabled /\ OnThreshold > OffThreshold /\ frame # None
            /\ OffThreshold < frame[1].b /\ frame[1].b < OnThreshold) =>
          /\ (Publishes /\ Published.topic = config.topics.lamp_control) =>
                Published.payload.state = 1 - BusLampState
          /\ (wpc # "L185" /\ wpc' = "L185") =>
                /\ Len(LampMsgs(sent')) = 1
                /\ run'.ons = (run'.n + 1 - run'.was) \div 2
      ]_vars

\* three frames of one brightness between the inverted thresholds: ON, OFF, ON
C17_Witness ==
    /\ Enabled /\ OnThreshold > OffThreshold
    /\ wpc = "L185"
    /\ run.b # None /\ OffThreshold < run.b[1] /\ run.b[1] < OnThreshold
    /\ run.n = 3
    /\ run.was = 0
    /\ run.ons = 2
    /\ BusLampState = 1

(* C18 as claimed: any two consecutive brightness events carry different payload values,
   the payload being the brightness rounded to 3 decimals. *)
C18_ConsecutivePayloadsDiffer ==
    [][ (Publishes /\ Published.topic = config.topics.brightness
            /\ retained[config.topics.brightness] # None) =>
          Published.payload.value # retained[config.topics.brightness][1].value
      ]_vars

\* the last lamp command the worker issued, delivered or not: its state, 0 when none
IssuedLampState ==
    IF issued[config.topics.lamp_control] = None THEN 0
    ELSE issued[config.topics.lamp_control][1].state

(* C19: lampState mirrors the automation decisions.  Except between the publish of a lamp
   command and the write of the State Store that follows it (lines 178-179, 183-184), and
   so at every iteration boundary, lamp_state is 1 exactly when last_lamp_action is "on",
   and it is the state of the last lamp command the worker issued, 0 when it issued none;
   whether or not the bus had a connection. *)
C19_LampStateMirrors ==
    wpc \notin {"L178", "L179", "L183", "L184"} =>
        /\ state.lamp_state = 1 <=> last_lamp_action = "on"
        /\ state.lamp_state \in {0, 1}
        /\ state.lamp_state = IssuedLampState

\* at an iteration boundary after an ON command that was delivered and an OFF command that
\* was lost in a bus outage: the State Store shows the lamp off, the bus still shows it on
C19_Witness ==
    /\ wpc = "L156"
    /\ frames >= 2
    /\ state.lamp_state = 0
    /\ last_lamp_action = "off"
    /\ issued[config.topics.lamp_control] # None
    /\ retained[config.topics.lamp_control] # None
    /\ retained[config.topics.lamp_control][1].state = 1

(* C20: the hysteresis state and the last published values survive a reconnect of the
   frame source.  In the iteration of the first frame read after a read failure, release
   and re-open, a lamp command is published only if the brightness crosses the threshold
   for the last command published before the failure, and brightness and presence are
   published exactly when they differ from the last value published before it. *)
C20_StateSurvivesReconnect ==
    [][ resumed =>
          /\ (Publishes /\ Published.topic = config.topics.lamp_control) =>
                Crossing(frame[1].b, BusLastAction)
          /\ (wpc = "L164" /\ wpc' # wpc) =>
                (sent' # sent <=> pubValue.brightness # Some(frame[1].b))
          /\ (wpc = "L167" /\ wpc' # wpc) =>
                (sent' # sent <=> pubValue.presence # Some(frame[1].p))
      ]_vars

\* the first frame after a reconnect shows what the last frame before it showed, the lamp
\* commanded on: its iteration ends with nothing published
C20_Witness ==
    /\ resumed
    /\ wpc = "L185"
    /\ sent = << >>
    /\ Enabled
    /\ BusLampState = 1
    /\ frame[1].b < OnThreshold

====
